---- MODULE Spec2Model ----
(***************************************************************************)
(* Model of the colour picker of mesh-magic:                               *)
(*   - the colour codec of app/components/ui/color-picker/color.utils.ts   *)
(*     (hsvToRgb, rgbToHex, rgbToHsv, hexToRgb, parseToRgb, parseColor),   *)
(*   - the picker state coordinator ColorPickerRoot.vue (updateHsv, the    *)
(*     watcher on the bound model, setColor, setPreviewColor) together     *)
(*     with the Vue scheduler steps it relies on (the flush of queued      *)
(*     jobs and the nextTick callbacks chained on that flush),             *)
(*   - the text field ColorPickerInput (handleInput and the watcher that   *)
(*     keeps the field's text) and the drag surfaces ColorPickerArea and   *)
(*     ColorPickerSaturation (frame requests and frame callbacks).         *)
(*                                                                         *)
(* JavaScript numbers are modelled as exact rationals [n |-> _, d |-> _]   *)
(* in lowest terms with d > 0; r, g, b channels are integers.  Strings are *)
(* sequences of one-character strings.  The OKLCH field of a ColorValue is *)
(* a function of its rgb field (rgbToOklch, transcendental) and is not     *)
(* represented.                                                            *)
(*                                                                         *)
(* Eight specifications.  Spec is the picker: its operations, the owner's   *)
(* writes to the bound model and the scheduler steps.  parseColor called   *)
(* on an HSV object computes no cache key and consults no resolver, so     *)
(* the picker's colours do not depend on the caches, which Spec leaves     *)
(* alone.  SpecParse is the parser: calls of parseColor on strings,        *)
(* objects, null and undefined, with parsedColorCache and colorNameCache   *)
(* as state, in each of the environments of Documents.  SpecToRgb is       *)
(* parseToRgb and hexToRgb called any number of times, with the resolver's *)
(* cache as state.  SpecCodec is one call of a conversion (rgbToHex,       *)
(* rgbToHsv, isHexColorValid, hexToRgb on valid hex, formatColor) on each  *)
(* argument of a bounded set.  SpecInput is the text field in a picker:     *)
(* input events and flushes, for each format and environment.  SpecDrag is *)
(* the three drag surfaces of ColorPicker.vue in a picker: pointer events, *)
(* frame callbacks and the scheduler steps.  SpecSetHsv is setHsv called   *)
(* with numbers inside and outside the range of each field.  SpecFair is   *)
(* Spec with the microtask queue drained (weak fairness on the flush and   *)
(* on the nextTick callback).                                              *)
(***************************************************************************)
EXTENDS Integers, Sequences, FiniteSets, TLC

\* ------------------------------------------------------------------------
\* Exact rational arithmetic standing for JavaScript number arithmetic
\* ------------------------------------------------------------------------

Abs(i) == IF i < 0 THEN -i ELSE i

RECURSIVE GCD(_, _)
GCD(a, b) == IF b = 0 THEN a ELSE GCD(b, a % b)

\* The rational n/d (d # 0) in lowest terms with a positive denominator.
Q(n, d) ==
    LET g == GCD(Abs(n), Abs(d))
        s == IF d < 0 THEN -1 ELSE 1
    IN  [n |-> s * (n \div g), d |-> s * (d \div g)]

I(i) == [n |-> i, d |-> 1]

RAdd(x, y) == Q(x.n * y.d + y.n * x.d, x.d * y.d)
RNeg(x) == [n |-> -x.n, d |-> x.d]
RSub(x, y) == RAdd(x, RNeg(y))

\* Cross-reduced so that the intermediate products stay small.
RMul(x, y) ==
    LET g1 == GCD(Abs(x.n), y.d)
        g2 == GCD(Abs(y.n), x.d)
    IN  IF x.n = 0 \/ y.n = 0 THEN I(0)
        ELSE [n |-> (x.n \div g1) * (y.n \div g2),
              d |-> (x.d \div g2) * (y.d \div g1)]

RDiv(x, y) == RMul(x, Q(y.d, y.n))

RLt(x, y) == x.n * y.d < y.n * x.d
RLe(x, y) == x.n * y.d <= y.n * x.d
RAbs(x) == [n |-> Abs(x.n), d |-> x.d]
RMax(x, y) == IF RLt(x, y) THEN y ELSE x
RMin(x, y) == IF RLt(y, x) THEN y ELSE x

\* Math.floor
RFloor(x) == x.n \div x.d

\* Truncation toward zero.
RTrunc(x) == IF x.n < 0 THEN -((-x.n) \div x.d) ELSE x.n \div x.d

\* The JavaScript remainder x % m: the result has the sign of the dividend.
RRem(x, m) == RSub(x, RMul(m, I(RTrunc(RDiv(x, m)))))

\* Math.round: the nearest integer, a tie going up (toward +Infinity).
MathRound(x) == RFloor(RAdd(x, Q(1, 2)))

IMax(a, b) == IF a < b THEN b ELSE a
IMin(a, b) == IF a < b THEN a ELSE b

\* ------------------------------------------------------------------------
\* JavaScript values handed to the parser
\* ------------------------------------------------------------------------

\* typeof x is x.t, except that typeof null is "object".
Null == [t |-> "null"]
Undefined == [t |-> "undefined"]
Str(chars) == [t |-> "string", s |-> chars]
Obj(fields) == [t |-> "object", o |-> fields]

\* The `in` operator on an object: the property is among its fields.
In(name, color) == name \in DOMAIN color.o

\* The explicit no-result value (null) of parseToRgb and hexToRgb.
NoResult == [none |-> TRUE]

\* ------------------------------------------------------------------------
\* Strings (sequences of one-character strings) and number parsing
\* ------------------------------------------------------------------------

WhiteSpace == {" ", "\t", "\n"}
Digits == <<"0", "1", "2", "3", "4", "5", "6", "7", "8", "9">>
HexDigits == <<"0", "1", "2", "3", "4", "5", "6", "7",
               "8", "9", "a", "b", "c", "d", "e", "f">>
UpperLetters == <<"A", "B", "C", "D", "E", "F", "G", "H", "I", "J", "K", "L", "M",
                  "N", "O", "P", "Q", "R", "S", "T", "U", "V", "W", "X", "Y", "Z">>
LowerLetters == <<"a", "b", "c", "d", "e", "f", "g", "h", "i", "j", "k", "l", "m",
                  "n", "o", "p", "q", "r", "s", "t", "u", "v", "w", "x", "y", "z">>

Range(seq) == {seq[i] : i \in DOMAIN seq}
IndexOf(seq, c) == CHOOSE i \in DOMAIN seq : seq[i] = c

toLowerCaseChar(c) ==
    IF c \in Range(UpperLetters) THEN LowerLetters[IndexOf(UpperLetters, c)] ELSE c

\* String.prototype.toLowerCase
toLowerCase(str) == [i \in 1..Len(str) |-> toLowerCaseChar(str[i])]

\* String.prototype.trim: white space removed at both ends.
trim(str) ==
    LET kept == {i \in 1..Len(str) : str[i] \notin WhiteSpace}
    IN  IF kept = {} THEN <<>>
        ELSE LET first == CHOOSE i \in kept : \A j \in kept : i <= j
                 last  == CHOOSE i \in kept : \A j \in kept : j <= i
             IN  SubSeq(str, first, last)

\* String.prototype.startsWith
startsWith(str, prefix) ==
    Len(prefix) <= Len(str) /\ SubSeq(str, 1, Len(prefix)) = prefix

\* The end of the longest run of characters of a class that starts at i:
\* the first position at or after i whose character is outside the class.
RunEnd(str, i, class) ==
    CHOOSE j \in i..(Len(str) + 1) :
        /\ \A k \in i..(j - 1) : str[k] \in class
        /\ j = Len(str) + 1 \/ str[j] \notin class

RECURSIVE Pow(_, _)
Pow(base, e) == IF e = 0 THEN 1 ELSE base * Pow(base, e - 1)

\* The value of a string of digits in a radix (digit values by position in
\* the digit table); the empty string has the value 0 here.
RECURSIVE DigitsValue(_, _, _)
DigitsValue(str, table, radix) ==
    IF str = <<>> THEN 0
    ELSE radix * DigitsValue(SubSeq(str, 1, Len(str) - 1), table, radix)
         + (IndexOf(table, str[Len(str)]) - 1)

NaN == [nan |-> TRUE]

\* parseInt(str, 10) of a string of decimal digits.
parseInt10(str) == DigitsValue(str, Digits, 10)

\* parseInt(str, 16) of a string of hex digits of either case.
parseInt16(str) == DigitsValue(toLowerCase(str), HexDigits, 16)

\* parseFloat of a string of digits and dots: the longest prefix that is a
\* decimal literal (digits, then at most one dot and more digits) is
\* converted; a prefix without any digit gives NaN.
parseFloat(str) ==
    LET intEnd  == RunEnd(str, 1, Range(Digits))
        intPart == SubSeq(str, 1, intEnd - 1)
        hasDot  == intEnd <= Len(str) /\ str[intEnd] = "."
        fracEnd == IF hasDot THEN RunEnd(str, intEnd + 1, Range(Digits)) ELSE intEnd
        frac    == IF hasDot THEN SubSeq(str, intEnd + 1, fracEnd - 1) ELSE <<>>
    IN  IF intPart = <<>> /\ frac = <<>> THEN NaN
        ELSE Q(parseInt10(intPart) * Pow(10, Len(frac)) + parseInt10(frac),
               Pow(10, Len(frac)))

\* Number.prototype.toString of a non-negative integer: its decimal digits.
RECURSIVE NatToString10(_)
NatToString10(n) ==
    IF n < 10 THEN <<Digits[n + 1]>>
    ELSE NatToString10(n \div 10) \o <<Digits[(n % 10) + 1]>>

\* The decimal places a number in [0, 1) is written with: the least k with
\* x * 10^k an integer. Defined for numbers of at most MaxDecimals places.
MaxDecimals == 7
DecimalPlaces(x) == CHOOSE k \in 0..MaxDecimals :
                        /\ Pow(10, k) % x.d = 0
                        /\ \A j \in 0..(k - 1) : Pow(10, j) % x.d # 0

Zeros(n) == [i \in 1..n |-> "0"]

\* Number.prototype.toString (radix 10) of a number x in [0, 1) with a
\* finite decimal expansion, as ECMAScript's Number::toString writes it:
\* with digits s (no trailing zero) and x = 0.s * 10^n, the form 0.000s when
\* -6 < n <= 0, and the exponent form s[1].s[2..]e-(1 - n) otherwise.
NumberToString(x) ==
    IF x.d = 1 THEN NatToString10(x.n)
    ELSE LET k == DecimalPlaces(x)
             s == NatToString10(x.n * (Pow(10, k) \div x.d))
             n == Len(s) - k
         IN  IF -6 < n
             THEN <<"0", ".">> \o Zeros(-n) \o s
             ELSE <<s[1]>>
                  \o (IF Len(s) > 1 THEN <<".">> \o SubSeq(s, 2, Len(s)) ELSE <<>>)
                  \o <<"e", "-">> \o NatToString10(1 - n)

\* ------------------------------------------------------------------------
\* Regular expressions of color.utils.ts
\* ------------------------------------------------------------------------

\* isHexColorValid with the expression's classes reduced to [a-f0-9].
isHexColorValidLowerCase(hex) ==
    /\ Len(hex) \in {4, 5, 7, 9}
    /\ hex[1] = "#"
    /\ \A i \in 2..Len(hex) : hex[i] \in Range(HexDigits)

\* HEX_REGEX.test: "#" and then 3, 4, 6 or 8 hex digits of either case.
isHexColorValid(hex) ==
    /\ Len(hex) \in {4, 5, 7, 9}
    /\ hex[1] = "#"
    /\ \A i \in 2..Len(hex) : toLowerCaseChar(hex[i]) \in Range(HexDigits)

\* The pieces the functional-form expressions are built from.
Lit(c) == [k |-> "lit", c |-> c]          \* the character c
Opt(c) == [k |-> "opt", c |-> c]          \* c?
Ws == [k |-> "ws"]                        \* \s*
Ws1 == [k |-> "ws1"]                      \* \s+
IntGroup == [k |-> "group", class |-> Range(Digits)]            \* (\d+)
NumGroup == [k |-> "group", class |-> Range(Digits) \cup {"."}] \* ([\d.]+)
LitStr(chars) == [i \in 1..Len(chars) |-> Lit(chars[i])]

\* Anchored match of the pieces pat[k..] against str[i..]. Each repetition
\* is followed by a piece that accepts none of its characters, so the
\* longest run is the only way to match and no backtracking is needed.
RECURSIVE MatchFrom(_, _, _, _, _)
MatchFrom(str, i, pat, k, groups) ==
    IF k > Len(pat)
    THEN [ok |-> i = Len(str) + 1, groups |-> groups]
    ELSE LET piece == pat[k]
             here  == i <= Len(str)
         IN  CASE piece.k = "lit" ->
                    IF here /\ str[i] = piece.c
                    THEN MatchFrom(str, i + 1, pat, k + 1, groups)
                    ELSE [ok |-> FALSE, groups |-> groups]
               [] piece.k = "opt" ->
                    IF here /\ str[i] = piece.c
                    THEN MatchFrom(str, i + 1, pat, k + 1, groups)
                    ELSE MatchFrom(str, i, pat, k + 1, groups)
               [] piece.k = "ws" ->
                    MatchFrom(str, RunEnd(str, i, WhiteSpace), pat, k + 1, groups)
               [] piece.k = "ws1" ->
                    IF RunEnd(str, i, WhiteSpace) > i
                    THEN MatchFrom(str, RunEnd(str, i, WhiteSpace), pat, k + 1, groups)
                    ELSE [ok |-> FALSE, groups |-> groups]
               [] piece.k = "group" ->
                    LET j == RunEnd(str, i, piece.class)
                    IN  IF j > i
                        THEN MatchFrom(str, j, pat, k + 1,
                                       Append(groups, SubSeq(str, i, j - 1)))
                        ELSE [ok |-> FALSE, groups |-> groups]

\* /^rgba?\(\s*(\d+)\s*,\s*(\d+)\s*,\s*(\d+)\s*(?:,\s*([\d.]+)\s*)?\)$/
RGB_REGEX ==
    [head |-> LitStr(<<"r", "g", "b">>)
              \o <<Opt("a"), Lit("("), Ws, IntGroup, Ws, Lit(","), Ws, IntGroup,
                   Ws, Lit(","), Ws, IntGroup, Ws>>,
     optional |-> <<Lit(","), Ws, NumGroup, Ws>>,
     tail |-> <<Lit(")")>>]

\* /^hsva?\(\s*([\d.]+)\s*,\s*([\d.]+)%?\s*,\s*([\d.]+)%?\s*(?:,\s*([\d.]+)\s*)?\)$/
HSV_REGEX ==
    [head |-> LitStr(<<"h", "s", "v">>)
              \o <<Opt("a"), Lit("("), Ws, NumGroup, Ws, Lit(","), Ws, NumGroup,
                   Opt("%"), Ws, Lit(","), Ws, NumGroup, Opt("%"), Ws>>,
     optional |-> <<Lit(","), Ws, NumGroup, Ws>>,
     tail |-> <<Lit(")")>>]

\* /^oklch\(\s*([\d.]+)\s+([\d.]+)\s+([\d.]+)\s*(?:\/\s*([\d.]+)\s*)?\)$/
OKLCH_REGEX ==
    [head |-> LitStr(<<"o", "k", "l", "c", "h">>)
              \o <<Lit("("), Ws, NumGroup, Ws1, NumGroup, Ws1, NumGroup, Ws>>,
     optional |-> <<Lit("/"), Ws, NumGroup, Ws>>,
     tail |-> <<Lit(")")>>]

\* String.prototype.match: the captured groups (group 4 absent when the
\* optional part took no part in the match), or null.
match(str, regex) ==
    LET with    == MatchFrom(str, 1, regex.head \o regex.optional \o regex.tail,
                             1, <<>>)
        without == MatchFrom(str, 1, regex.head \o regex.tail, 1, <<>>)
    IN  IF with.ok THEN with.groups
        ELSE IF without.ok THEN without.groups
        ELSE NoResult

\* ------------------------------------------------------------------------
\* Colour codec (color.utils.ts)
\* ------------------------------------------------------------------------

RECURSIVE NatToString16(_)
NatToString16(n) ==
    IF n < 16 THEN <<HexDigits[n + 1]>>
    ELSE NatToString16(n \div 16) \o <<HexDigits[(n % 16) + 1]>>

\* Number.prototype.toString(16) of an integer.
ToString16(n) == IF n < 0 THEN <<"-">> \o NatToString16(-n) ELSE NatToString16(n)

\* String.prototype.padStart(2, "0")
PadStart2(str) == IF Len(str) < 2 THEN <<"0">> \o str ELSE str

\* rgbToHex without padStart: one digit for a value below 16.
rgbToHexUnpadded(rgb) ==
    LET redHex   == ToString16(rgb.r)
        greenHex == ToString16(rgb.g)
        blueHex  == ToString16(rgb.b)
        alphaHex == IF RLt(rgb.a, I(1))
                    THEN ToString16(MathRound(RMul(rgb.a, I(255))))
                    ELSE <<>>
    IN  <<"#">> \o redHex \o greenHex \o blueHex \o alphaHex

\* hsvToRgb without the offset m = v - c added to the channels.
hsvToRgbNoOffset(hsv) ==
    LET h0 == RRem(hsv.h, I(360))
        h  == IF RLt(h0, I(0)) THEN RAdd(h0, I(360)) ELSE h0
        c  == RMul(hsv.v, hsv.s)
        x  == RMul(c, RSub(I(1), RAbs(RSub(RRem(RDiv(h, I(60)), I(2)), I(1)))))
        p  == IF RLe(I(0), h) /\ RLt(h, I(60)) THEN <<c, x, I(0)>>
              ELSE IF RLe(I(60), h) /\ RLt(h, I(120)) THEN <<x, c, I(0)>>
              ELSE IF RLe(I(120), h) /\ RLt(h, I(180)) THEN <<I(0), c, x>>
              ELSE IF RLe(I(180), h) /\ RLt(h, I(240)) THEN <<I(0), x, c>>
              ELSE IF RLe(I(240), h) /\ RLt(h, I(300)) THEN <<x, I(0), c>>
              ELSE IF RLe(I(300), h) /\ RLt(h, I(360)) THEN <<c, I(0), x>>
              ELSE <<I(0), I(0), I(0)>>
    IN  [r |-> MathRound(RMul(p[1], I(255))),
         g |-> MathRound(RMul(p[2], I(255))),
         b |-> MathRound(RMul(p[3], I(255))),
         a |-> hsv.a]

\* hsvToRgb: chroma / sector algorithm, the hue first brought into [0,360).
hsvToRgb(hsv) ==
    LET h0 == RRem(hsv.h, I(360))
        h  == IF RLt(h0, I(0)) THEN RAdd(h0, I(360)) ELSE h0
        c  == RMul(hsv.v, hsv.s)
        x  == RMul(c, RSub(I(1), RAbs(RSub(RRem(RDiv(h, I(60)), I(2)), I(1)))))
        m  == RSub(hsv.v, c)
        p  == IF RLe(I(0), h) /\ RLt(h, I(60)) THEN <<c, x, I(0)>>
              ELSE IF RLe(I(60), h) /\ RLt(h, I(120)) THEN <<x, c, I(0)>>
              ELSE IF RLe(I(120), h) /\ RLt(h, I(180)) THEN <<I(0), c, x>>
              ELSE IF RLe(I(180), h) /\ RLt(h, I(240)) THEN <<I(0), x, c>>
              ELSE IF RLe(I(240), h) /\ RLt(h, I(300)) THEN <<x, I(0), c>>
              ELSE IF RLe(I(300), h) /\ RLt(h, I(360)) THEN <<c, I(0), x>>
              ELSE <<I(0), I(0), I(0)>>
    IN  [r |-> MathRound(RMul(RAdd(p[1], m), I(255))),
         g |-> MathRound(RMul(RAdd(p[2], m), I(255))),
         b |-> MathRound(RMul(RAdd(p[3], m), I(255))),
         a |-> hsv.a]

\* rgbToHex: two padded hex digits per channel, the alpha byte only if a < 1.
rgbToHex(rgb) ==
    LET redHex   == PadStart2(ToString16(rgb.r))
        greenHex == PadStart2(ToString16(rgb.g))
        blueHex  == PadStart2(ToString16(rgb.b))
        alphaHex == IF RLt(rgb.a, I(1))
                    THEN PadStart2(ToString16(MathRound(RMul(rgb.a, I(255)))))
                    ELSE <<>>
    IN  <<"#">> \o redHex \o greenHex \o blueHex \o alphaHex

\* rgbToHsv: max / min / delta sector algorithm.
rgbToHsv(rgb) ==
    LET rNorm == Q(rgb.r, 255)
        gNorm == Q(rgb.g, 255)
        bNorm == Q(rgb.b, 255)
        max   == RMax(RMax(rNorm, gNorm), bNorm)
        min   == RMin(RMin(rNorm, gNorm), bNorm)
        delta == RSub(max, min)
        hSect == IF max = rNorm THEN RRem(RDiv(RSub(gNorm, bNorm), delta), I(6))
                 ELSE IF max = gNorm THEN RAdd(RDiv(RSub(bNorm, rNorm), delta), I(2))
                 ELSE RAdd(RDiv(RSub(rNorm, gNorm), delta), I(4))
        hDeg  == RMul(hSect, I(60))
        h     == IF delta = I(0) THEN I(0)
                 ELSE IF RLt(hDeg, I(0)) THEN RAdd(hDeg, I(360)) ELSE hDeg
        s     == IF max = I(0) THEN I(0) ELSE RDiv(delta, max)
    IN  [h |-> h, s |-> s, v |-> max, a |-> rgb.a]

\* linearToSRgb for the arguments whose result is rational: the linear
\* segment (c <= 0.0031308) and c = 1; Math.pow makes every other argument
\* irrational, and the operator is left undefined there.
linearToSRgb(c) ==
    CASE RLe(c, Q(31308, 10000000)) ->
            IMax(0, IMin(255, MathRound(RMul(RMul(Q(1292, 100), c), I(255)))))
      [] c = I(1) -> 255

\* oklchToRgb for chroma 0: cos(h) * C and sin(h) * C vanish whatever the
\* hue is, the three cone responses equal L^3, and each row of the matrix
\* sums to 1 (e.g. 4.0767416621 - 3.3077115913 + 0.2309699292).
oklchToRgb(oklch) ==
    CASE oklch.c = I(0) ->
        LET cube == RMul(oklch.l, RMul(oklch.l, oklch.l))
        IN  [r |-> linearToSRgb(cube), g |-> linearToSRgb(cube),
             b |-> linearToSRgb(cube), a |-> oklch.a]

\* ------------------------------------------------------------------------
\* Named-colour resolver (colorNameToHex) and the platform behind it
\* ------------------------------------------------------------------------

\* The strings of the model.
EmptyString == <<>>
Zzz == <<"z", "z", "z">>
Red == <<"r", "e", "d">>
ShortHexRed == <<" ", "#", "F", "0", "0", " ">>
HexRed == <<"#", "f", "f", "0", "0", "0", "0">>
HexBlack == <<"#", "0", "0", "0", "0", "0", "0">>
HexHalfRed == <<"#", "f", "f", "0", "0", "0", "0", "8", "0">>
RgbOver == <<"r", "g", "b", "(", "3", "0", "0", ",", " ", "0", ",", " ", "0", ")">>
RgbaHalfRed == <<"r", "g", "b", "a", "(", "2", "5", "5", ",", " ", "0", ",", " ",
                 "0", ",", " ", "0", ".", "5", ")">>
HsvSteel == <<"h", "s", "v", "(", "2", "0", "0", ",", " ", "5", "0", "%", ",",
              " ", "5", "0", "%", ")">>
OklchWhite == <<"o", "k", "l", "c", "h", "(", "1", " ", "0", " ", "0", ")">>
SevenDigits == <<"#", "1", "2", "c", "0", "0", "0", "0">>
Transparent == <<"t", "r", "a", "n", "s", "p", "a", "r", "e", "n", "t">>
RgbaClear == <<"r", "g", "b", "a", "(", "0", ",", " ", "0", ",", " ", "0", ",", " ",
               "0", ")">>

\* The platform's own reading of rgb(r, g, b) and rgba(r, g, b, a) with
\* integer channels: as RGB_REGEX, but the alpha is a CSS number, which may
\* have an exponent.
CssNumGroup == [k |-> "group", class |-> Range(Digits) \cup {".", "e", "-", "+"}]
CSS_RGB == [RGB_REGEX EXCEPT !.optional = <<Lit(","), Ws, CssNumGroup, Ws>>]

\* Whether a CSS number (digits, an optional fraction, an optional exponent)
\* is below 1.
CssScaledBelowOne(mantissa, negative, exponent) ==
    IF negative THEN RLt(mantissa, I(Pow(10, exponent)))
    ELSE RLt(RMul(mantissa, I(Pow(10, exponent))), I(1))

CssBelowOneAt(num, ePos, signed) ==
    CssScaledBelowOne(parseFloat(SubSeq(num, 1, ePos - 1)),
                      signed /\ num[ePos + 1] = "-",
                      parseInt10(SubSeq(num, IF signed THEN ePos + 2 ELSE ePos + 1,
                                        Len(num))))

CssExponentAt(num, ePos) ==
    CssBelowOneAt(num, ePos, ePos < Len(num) /\ num[ePos + 1] \in {"-", "+"})

CssBelowOne(num) ==
    CssExponentAt(num, IF "e" \in Range(num) THEN IndexOf(num, "e") ELSE Len(num) + 1)

\* What the canvas reads back for a string outside the table: a colour in
\* rgb() / rgba() notation comes back as '#rrggbb' (channels clamped to 255)
\* if it is opaque and in rgba() notation, which is no hex, if it is not; for
\* a string the canvas does not understand the fill style stays at its
\* initial value, black.
CanvasParsed(name, groups) ==
    IF groups = NoResult THEN HexBlack
    ELSE IF Len(groups) = 4 /\ CssBelowOne(groups[4]) THEN name
    ELSE <<"#">> \o PadStart2(ToString16(IMin(255, parseInt10(groups[1]))))
                 \o PadStart2(ToString16(IMin(255, parseInt10(groups[2]))))
                 \o PadStart2(ToString16(IMin(255, parseInt10(groups[3]))))

\* What reading context.fillStyle back gives after assigning a string to it
\* on a fresh 2D canvas context (lines 97-98): an opaque CSS colour is
\* serialised as "#rrggbb", any other CSS colour in functional notation, and
\* the assignment of a string that is no CSS colour is ignored, which leaves
\* the initial value "#000000".
CanvasFillStyle(name) ==
    CASE name = Red -> HexRed
      [] name = HexRed -> HexRed
      [] name = <<"#", "f", "0", "0">> -> HexRed
      [] name = RgbOver -> HexRed
      [] name = RgbaHalfRed -> RgbaHalfRed
      [] name = Transparent -> RgbaClear
      [] name = RgbaClear -> RgbaClear
      [] name = OklchWhite -> OklchWhite
      [] OTHER -> CanvasParsed(name, match(name, CSS_RGB))

\* The environments the module runs in: no document at all (server-side
\* rendering), a document whose canvas gives no 2D context, a browser.
Documents == {"undefined", "noContext", "canvas"}

\* colorNameToHex. st holds the resolver's state: names is colorNameCache,
\* calls the strings handed to the platform so far. The result is the
\* returned value together with the state the call leaves.
\* The end of colorNameToHex (lines 100-105), given what the canvas read
\* back: a value that starts with '#' is cached under the normalised name.
colorNameToHexRead(normalizedName, called, returnedColor) ==
    [value |-> returnedColor,
     st |-> IF returnedColor # <<>> /\ startsWith(returnedColor, <<"#">>)
            THEN [called EXCEPT !.names =
                     [n \in DOMAIN @ \cup {normalizedName} |->
                         IF n = normalizedName THEN returnedColor ELSE @[n]]]
            ELSE called]

\* colorNameToHex from the cache lookup on (lines 90-105).
colorNameToHexNormalized(normalizedName, st, document) ==
    IF document = "undefined" THEN [value |-> NoResult, st |-> st]
    ELSE IF normalizedName \in DOMAIN st.names
    THEN [value |-> st.names[normalizedName], st |-> st]
    ELSE IF document = "noContext" THEN [value |-> NoResult, st |-> st]
    ELSE colorNameToHexRead(normalizedName,
                            [st EXCEPT !.calls = Append(@, normalizedName)],
                            CanvasFillStyle(normalizedName))

colorNameToHex(colorName, st, document) ==
    colorNameToHexNormalized(trim(toLowerCase(colorName)), st, document)

\* hexToRgbValid with the shorthand digits read once, not doubled.
hexToRgbValidSingle(hex) ==
    IF Len(hex) = 4 \/ Len(hex) = 5
    THEN [r |-> parseInt16(<<hex[2]>>),
          g |-> parseInt16(<<hex[3]>>),
          b |-> parseInt16(<<hex[4]>>),
          a |-> IF Len(hex) = 5 THEN Q(parseInt16(<<hex[5]>>), 255)
                ELSE I(1)]
    ELSE [r |-> parseInt16(SubSeq(hex, 2, 3)),
          g |-> parseInt16(SubSeq(hex, 4, 5)),
          b |-> parseInt16(SubSeq(hex, 6, 7)),
          a |-> IF Len(hex) = 9 THEN Q(parseInt16(SubSeq(hex, 8, 9)), 255)
                ELSE I(1)]

\* hexToRgbValid with every string read as shorthand: one digit per channel.
hexToRgbValidShorthand(hex) ==
    [r |-> parseInt16(<<hex[2], hex[2]>>),
     g |-> parseInt16(<<hex[3], hex[3]>>),
     b |-> parseInt16(<<hex[4], hex[4]>>),
     a |-> I(1)]

\* hexToRgb of a valid hex string (lines 142-166).
hexToRgbValid(hex) ==
    IF Len(hex) = 4 \/ Len(hex) = 5
    THEN [r |-> parseInt16(<<hex[2], hex[2]>>),
          g |-> parseInt16(<<hex[3], hex[3]>>),
          b |-> parseInt16(<<hex[4], hex[4]>>),
          a |-> IF Len(hex) = 5 THEN Q(parseInt16(<<hex[5], hex[5]>>), 255)
                ELSE I(1)]
    ELSE [r |-> parseInt16(SubSeq(hex, 2, 3)),
          g |-> parseInt16(SubSeq(hex, 4, 5)),
          b |-> parseInt16(SubSeq(hex, 6, 7)),
          a |-> IF Len(hex) = 9 THEN Q(parseInt16(SubSeq(hex, 8, 9)), 255)
                ELSE I(1)]

\* hexToRgb of what the resolver returned for a string that is no valid
\* hex (lines 136-139).
hexToRgbResolved(colorHex) ==
    IF colorHex.value # NoResult /\ colorHex.value # <<>>
       /\ isHexColorValid(colorHex.value)
    THEN [value |-> hexToRgbValid(colorHex.value), st |-> colorHex.st]
    ELSE [value |-> NoResult, st |-> colorHex.st]

\* hexToRgb: a string that is no valid hex goes to the resolver, and what
\* the resolver returns is decoded if it is valid hex.
hexToRgb(hex, st, document) ==
    IF isHexColorValid(hex) THEN [value |-> hexToRgbValid(hex), st |-> st]
    ELSE hexToRgbResolved(colorNameToHex(hex, st, document))

\* The alpha of a functional form: the fourth group, or 1 without it.
alphaOf(groups) == IF Len(groups) = 4 THEN parseFloat(groups[4]) ELSE I(1)

\* The functional forms of parseToRgb (lines 333-361), given what the three
\* expressions matched.
parseFunctionalForm(rgbMatch, hsvMatch, oklchMatch) ==
    IF rgbMatch # NoResult
    THEN [r |-> parseInt10(rgbMatch[1]),
          g |-> parseInt10(rgbMatch[2]),
          b |-> parseInt10(rgbMatch[3]),
          a |-> alphaOf(rgbMatch)]
    ELSE IF hsvMatch # NoResult
    THEN hsvToRgb([h |-> parseFloat(hsvMatch[1]),
                   s |-> RDiv(parseFloat(hsvMatch[2]), I(100)),
                   v |-> RDiv(parseFloat(hsvMatch[3]), I(100)),
                   a |-> alphaOf(hsvMatch)])
    ELSE IF oklchMatch # NoResult
    THEN oklchToRgb([l |-> parseFloat(oklchMatch[1]),
                     c |-> parseFloat(oklchMatch[2]),
                     h |-> parseFloat(oklchMatch[3]),
                     a |-> alphaOf(oklchMatch)])
    ELSE NoResult

\* The last resort of parseToRgb for a string (lines 363-365): what the
\* resolver returned, colorToHex, is decoded by hexToRgb unless it is falsy.
parseResolved(colorToHex, document) ==
    IF colorToHex.value = NoResult \/ colorToHex.value = <<>>
    THEN [value |-> NoResult, st |-> colorToHex.st]
    ELSE hexToRgb(colorToHex.value, colorToHex.st, document)

\* parseToRgb after its call of hexToRgb (lines 331-365): the hex result if
\* there is one, else a functional form, else the resolver.
parseAfterHex(trimmed, hexResult, functional, document) ==
    IF hexResult.value # NoResult THEN hexResult
    ELSE IF functional # NoResult THEN [value |-> functional, st |-> hexResult.st]
    ELSE parseResolved(colorNameToHex(trimmed, hexResult.st, document), document)

\* String inputs of parseToRgb (lines 328-365), trimmed and lowercased.
parseStringToRgb(trimmed, st, document) ==
    parseAfterHex(trimmed, hexToRgb(trimmed, st, document),
                  parseFunctionalForm(match(trimmed, RGB_REGEX),
                                      match(trimmed, HSV_REGEX),
                                      match(trimmed, OKLCH_REGEX)),
                  document)

\* A variant of parseObjectToRgb with parseColor's fallback, opaque black,
\* for an object of no recognised shape.
parseObjectToRgbBlack(color) ==
    IF In("rgb", color) THEN color.o.rgb
    ELSE IF In("r", color) /\ In("g", color) /\ In("b", color) THEN color.o
    ELSE IF In("h", color) /\ In("s", color) /\ In("v", color) THEN hsvToRgb(color.o)
    ELSE IF In("l", color) /\ In("c", color) /\ In("h", color) THEN oklchToRgb(color.o)
    ELSE [r |-> 0, g |-> 0, b |-> 0, a |-> I(1)]

\* Object inputs of parseToRgb (lines 368-382).
parseObjectToRgb(color) ==
    IF In("rgb", color) THEN color.o.rgb
    ELSE IF In("r", color) /\ In("g", color) /\ In("b", color) THEN color.o
    ELSE IF In("h", color) /\ In("s", color) /\ In("v", color) THEN hsvToRgb(color.o)
    ELSE IF In("l", color) /\ In("c", color) /\ In("h", color) THEN oklchToRgb(color.o)
    ELSE NoResult

\* parseToRgb: a falsy input (null, undefined, the empty string) has no
\* result.
parseToRgb(color, st, document) ==
    IF color.t \in {"null", "undefined"} \/ (color.t = "string" /\ color.s = <<>>)
    THEN [value |-> NoResult, st |-> st]
    ELSE IF color.t = "string"
    THEN parseStringToRgb(toLowerCase(trim(color.s)), st, document)
    ELSE [value |-> parseObjectToRgb(color), st |-> st]

\* The ColorValue built from an RGB colour (parseColor, lines 414-420).
ColorValueOf(rgb) ==
    [hex |-> rgbToHex(rgb), rgb |-> rgb, hsv |-> rgbToHsv(rgb)]

\* formatColor, formats "rgb", "hsv" and "hex" (the oklch field is not
\* represented). Template literals write numbers with Number.prototype.toString.
formatColor(color, format) ==
    IF format = "rgb"
    THEN LET c == color.rgb
             channels == NatToString10(c.r) \o <<",", " ">> \o NatToString10(c.g)
                         \o <<",", " ">> \o NatToString10(c.b)
         IN  IF RLt(c.a, I(1))
             THEN <<"r", "g", "b", "a", "(">> \o channels \o <<",", " ">>
                  \o NumberToString(c.a) \o <<")">>
             ELSE <<"r", "g", "b", "(">> \o channels \o <<")">>
    ELSE IF format = "hsv"
    THEN LET c == color.hsv
             parts == NatToString10(MathRound(c.h)) \o <<",", " ">>
                      \o NatToString10(MathRound(RMul(c.s, I(100)))) \o <<"%", ",", " ">>
                      \o NatToString10(MathRound(RMul(c.v, I(100)))) \o <<"%">>
         IN  IF RLt(c.a, I(1))
             THEN <<"h", "s", "v", "a", "(">> \o parts \o <<",", " ">>
                  \o NumberToString(c.a) \o <<")">>
             ELSE <<"h", "s", "v", "(">> \o parts \o <<")">>
    ELSE color.hex

OpaqueBlack == [r |-> 0, g |-> 0, b |-> 0, a |-> I(1)]

\* Map.prototype.set
MapSet(map, key, value) ==
    [k \in DOMAIN map \cup {key} |-> IF k = key THEN value ELSE map[k]]

EmptyMap == <<>>
NoResolverState == [names |-> EmptyMap, calls |-> <<>>]

TypeError == [thrown |-> "TypeError"]

\* The cache key of parseColor (lines 399-411): the lowercased and trimmed
\* string, the hex of an object with r, g and b, null for any other object.
cacheKeyOf(color) ==
    IF color.t = "string" THEN trim(toLowerCase(color.s))
    ELSE IF In("r", color) /\ In("g", color) /\ In("b", color)
    THEN rgbToHex(color.o)
    ELSE NoResult

\* The end of parseColor (lines 414-427): the result is stored under the
\* cache key, if that is a non-empty string, and under its own hex.
parseColorStore(cache, cacheKey, result, st) ==
    [thrown |-> FALSE, value |-> result, st |-> st,
     cache |-> MapSet(IF cacheKey # NoResult /\ cacheKey # <<>>
                      THEN MapSet(cache, cacheKey, result) ELSE cache,
                      result.hex, result)]

\* parseColor from the cache lookup on (lines 399-427); parsed is what
\* parseToRgb gives for the input, needed when the key is not in the cache.
parseColorKeyed(cache, cacheKey, parsed, st) ==
    IF cacheKey # NoResult /\ cacheKey \in DOMAIN cache
    THEN [thrown |-> FALSE, value |-> cache[cacheKey], st |-> st, cache |-> cache]
    ELSE parseColorStore(cache, cacheKey,
                         ColorValueOf(IF parsed.value = NoResult THEN OpaqueBlack
                                      ELSE parsed.value),
                         parsed.st)

\* parseColor. cache is parsedColorCache. The outcome is either a thrown
\* TypeError (the `in` operator applied to null or undefined, lines 396 and
\* 406), which leaves the caches as they were, or the returned ColorValue
\* with the caches the call leaves.
parseColor(color, cache, st, document) ==
    IF color.t \in {"null", "undefined"}
    THEN [thrown |-> TRUE, value |-> TypeError, st |-> st, cache |-> cache]
    ELSE IF color.t = "object" /\ In("hex", color) /\ In("rgb", color)
    THEN [thrown |-> FALSE, value |-> color.o, st |-> st, cache |-> cache]
    ELSE parseColorKeyed(cache, cacheKeyOf(color),
                         parseToRgb(color, st, document), st)

\* parseColor on an HSV object: such an input is no string and has no r, g,
\* b fields, so no cache key is computed for it (lines 400-411), and
\* parseToRgb converts it without consulting the resolver: the result is the
\* same whatever the caches hold.
parseColorHsv(hsv) ==
    parseColor(Obj(hsv), EmptyMap, NoResolverState, "undefined").value

\* ------------------------------------------------------------------------
\* Picker state coordinator (ColorPickerRoot.vue) and the scheduler steps
\* ------------------------------------------------------------------------

VARIABLES
    hsv,              \* hsvRef: the tracked HSV
    color,            \* the bound model (defineModel), a ColorValue
    previewColor,     \* previewColorRef
    isInternalUpdate, \* the re-entrancy guard
    watchQueued,      \* the model changed since the last flush: the watcher
                      \* on color runs in the next flush
    microtasks,       \* the microtask queue: "flushJobs" and "reset" entries
    flushWaiters,     \* nextTick callbacks chained on the pending flush
    inTask,           \* the synchronous part of the current task can still run
    lastOp,           \* history: the last operation on the picker interface
    lastStep,         \* history: the kind of the last step taken
    vRun,             \* history: the hue and saturation a run of value-only
                      \* setHsv calls started from
    parsedColorCache, \* the memo of parseColor: key string -> ColorValue
    colorNameCache,   \* the memo of colorNameToHex: name -> hex string
    document,         \* the environment, one of Documents
    lastParse,        \* history: the last call of parseColor
    parseCalls,       \* the number of parseColor calls made so far
    lastCall,         \* history: the last call of a function of the codec
    localValue,       \* ColorPickerInput: the text of the field
    format,           \* the active text format, read from the picker context
    rafId,            \* per drag surface: the handle of its requested frame
    isDragging,       \* per drag surface: a drag is in progress
    pointer,          \* the pointer's position and the width of the surfaces
    frames,           \* the platform's list of animation frame callbacks
    lastFrame         \* history: the last animation frame callback that ran

pickerVars == <<hsv, color, previewColor, isInternalUpdate, watchQueued,
                microtasks, flushWaiters, inTask, lastOp, lastStep, vRun>>

inputVars == <<localValue, format>>

dragVars == <<rafId, isDragging, pointer, frames, lastFrame>>

parseVars == <<parsedColorCache, colorNameCache, document, lastParse,
               parseCalls, lastCall, inputVars, dragVars>>

vars == <<pickerVars, parseVars>>

\* Bounds of the model: the setHsv calls within one tick, and the parseColor
\* calls of a run of the parser.
MaxTickCalls == 2
MaxParseCalls == 2

\* Values the model draws its inputs from.
HueInputs == {I(200), Q(452, 5), I(-10), I(370)}
SatInputs == {I(0), Q(1, 2)}
ValInputs == {I(0), Q(1, 2)}
AlphaInputs == {Q(1, 2)}

\* The arguments of setHsv: the shapes the drag surfaces pass ({h}, {s, v}),
\* single fields, and all four fields together.
HsvUpdates ==
    {[h |-> h] : h \in HueInputs}
    \cup {[s |-> x] : x \in SatInputs}
    \cup {[v |-> x] : x \in ValInputs}
    \cup {[a |-> x] : x \in AlphaInputs}
    \cup {[s |-> x, v |-> y] : x \in SatInputs, y \in ValInputs}
    \cup {[h |-> h, s |-> Q(1, 2), v |-> Q(1, 2), a |-> I(1)] : h \in {I(200)}}

Hsv(h, s, v, a) == [h |-> h, s |-> s, v |-> v, a |-> a]

\* Colours the owner of the picker supplies (as the initial model, through
\* setColor, setPreviewColor, or by writing the bound model).
OwnerColors ==
    {parseColorHsv(x) : x \in {Hsv(I(0), I(1), I(1), I(1)),          \* red
                                Hsv(I(240), I(1), Q(1, 2), Q(1, 2)),  \* translucent navy
                                Hsv(I(0), I(0), Q(1, 2), I(1)),       \* gray
                                Hsv(I(0), I(0), I(0), I(1))}}         \* black

\* Colours handed to setPreviewColor (a preset).
PreviewInputs ==
    {parseColorHsv(Hsv(I(0), I(0), Q(1, 2), I(1)))}

\* { ...base, ...update }
Spread(base, update) ==
    [f \in (DOMAIN base) \cup (DOMAIN update) |->
        IF f \in DOMAIN update THEN update[f] ELSE base[f]]

\* A variant of MergedHsv that stores a passed hue as given.
MergedHsvUnclamped(current, hsvUpdate) == Spread(current, hsvUpdate)

\* updateHsv, lines 31-35: the merged HSV, a passed hue rounded and clamped.
MergedHsv(current, hsvUpdate) ==
    LET newHsv == Spread(current, hsvUpdate)
    IN  IF "h" \in DOMAIN hsvUpdate
        THEN [newHsv EXCEPT !.h = I(IMax(0, IMin(360, MathRound(hsvUpdate.h))))]
        ELSE newHsv

\* A variant of PreviewAfter that rebuilds the preview on every call, from
\* the passed fields spread over a fully saturated, fully bright red.
PreviewAfterAlways(preview, hsvUpdate) ==
    parseColorHsv(Spread(Hsv(I(0), I(1), I(1), I(1)), hsvUpdate))

\* updateHsv, lines 42-50: the preview follows only a passed hue.
PreviewAfter(preview, hsvUpdate) ==
    IF "h" \in DOMAIN hsvUpdate
    THEN parseColorHsv(Hsv(hsvUpdate.h, I(1), I(1), I(1)))
    ELSE preview

\* History of a run of setHsv calls that pass only v: it starts from a
\* colour with s > 0 and v > 0 and records whether v was driven to 0.
NoRun == [none |-> TRUE]

RunAfterSetHsv(run, current, hsvUpdate) ==
    IF DOMAIN hsvUpdate # {"v"} THEN NoRun
    ELSE IF run # NoRun
         THEN [run EXCEPT !.collapsed = @ \/ hsvUpdate.v = I(0)]
    ELSE IF RLt(I(0), current.s) /\ RLt(I(0), current.v)
         THEN [h |-> current.h, s |-> current.s, collapsed |-> hsvUpdate.v = I(0)]
    ELSE NoRun

\* queueJob / queueFlush: a write to reactive state queues one flush.
QueueFlush(queue) ==
    IF \E i \in 1..Len(queue) : queue[i] = "flushJobs"
    THEN queue ELSE Append(queue, "flushJobs")

\* The picker's operations are called from event handlers and animation
\* frame callbacks, i.e. in a task: before the task's microtasks drain.
AtTaskLevel == microtasks = <<>> \/ inTask

\* The drag surfaces of ColorPicker.vue: the ColorPickerArea inside the
\* ColorPickerSaturation, that ColorPickerSaturation, and the
\* ColorPickerArea of the hue bar.
Surfaces == {"area", "saturation", "hue"}

\* rafId = null; a handle returned by requestAnimationFrame is positive.
NoFrame == 0
FrameHandle == 1

\* The width of a laid-out surface, and the top of the hue bar below the
\* saturation square.
SurfaceWidth == 100
HueTop == 120

\* Where the pointer is (relative to the corner of the saturation square),
\* with the width of the surfaces: 0 while they are not laid out.
Pointers ==
    {[x |-> x, y |-> y, w |-> SurfaceWidth] :
        x \in {-10, 50, 100}, y \in {0, 130}}
    \cup {[x |-> 50, y |-> 50, w |-> 0]}

\* No drag is in progress and no frame is requested.
IdleSurfaces ==
    /\ rafId = [s \in Surfaces |-> NoFrame]
    /\ isDragging = [s \in Surfaces |-> FALSE]
    /\ pointer = [x |-> 50, y |-> 50, w |-> SurfaceWidth]
    /\ frames = <<>>
    /\ lastFrame = [surface |-> "none", changes |-> <<>>]

InitPicker ==
    /\ color \in OwnerColors
    /\ hsv = color.hsv
    /\ previewColor = parseColorHsv(Spread(color.hsv, [s |-> I(1), v |-> I(1)]))
    /\ isInternalUpdate = FALSE
    /\ watchQueued = FALSE
    /\ microtasks = <<>>
    /\ flushWaiters = 0
    /\ inTask = FALSE
    /\ lastOp = [kind |-> "init"]
    /\ lastStep = "init"
    /\ vRun = NoRun
    /\ IdleSurfaces

\* updateHsv(hsvUpdate), exposed as setHsv.
SetHsv(hsvUpdate) ==
    /\ AtTaskLevel
    /\ flushWaiters < MaxTickCalls
    /\ isInternalUpdate' = TRUE
    /\ hsv' = MergedHsv(hsv, hsvUpdate)
    /\ color' = parseColorHsv(hsv')
    /\ previewColor' = PreviewAfter(previewColor, hsvUpdate)
    /\ watchQueued' = TRUE
    /\ microtasks' = QueueFlush(microtasks)
    /\ flushWaiters' = flushWaiters + 1
    /\ inTask' = TRUE
    /\ lastOp' = [kind |-> "setHsv", arg |-> hsvUpdate]
    /\ lastStep' = "setHsv"
    /\ vRun' = RunAfterSetHsv(vRun, hsv, hsvUpdate)
    /\ UNCHANGED parseVars

\* A variant of HsvAfterSetColor that leaves the tracked HSV to the watcher.
HsvAfterSetColorKept(current, newColor) == current

\* setColor, line 84: the tracked HSV is replaced by the new colour's.
HsvAfterSetColor(current, newColor) == newColor.hsv

\* setColor(newColor)
SetColor(newColor) ==
    /\ AtTaskLevel
    /\ color' = newColor
    /\ hsv' = HsvAfterSetColor(hsv, newColor)
    /\ watchQueued' = TRUE
    /\ microtasks' = QueueFlush(microtasks)
    /\ inTask' = TRUE
    /\ lastOp' = [kind |-> "setColor", arg |-> newColor]
    /\ lastStep' = "setColor"
    /\ vRun' = NoRun
    /\ UNCHANGED <<previewColor, isInternalUpdate, flushWaiters>>
    /\ UNCHANGED parseVars

\* setPreviewColor(newColor)
SetPreviewColor(newColor) ==
    /\ AtTaskLevel
    /\ previewColor' = newColor
    /\ microtasks' = QueueFlush(microtasks)
    /\ inTask' = TRUE
    /\ lastOp' = [kind |-> "setPreviewColor"]
    /\ lastStep' = "setPreviewColor"
    /\ UNCHANGED <<hsv, color, isInternalUpdate, watchQueued, flushWaiters, vRun>>
    /\ UNCHANGED parseVars

\* The owner of the picker writes the bound model (v-model), in a task or
\* from a microtask of its own.
ExternalReplace(newColor) ==
    /\ color' = newColor
    /\ watchQueued' = TRUE
    /\ microtasks' = QueueFlush(microtasks)
    /\ inTask' = AtTaskLevel
    /\ lastOp' = [kind |-> "external"]
    /\ lastStep' = "external"
    /\ vRun' = NoRun
    /\ UNCHANGED <<hsv, previewColor, isInternalUpdate, flushWaiters>>
    /\ UNCHANGED parseVars

\* A variant of WatchColor without the early return on the guard.
WatchColorNoGuard(current, newVal, guard) ==
    LET incomingHsv == newVal.hsv
    IN  IF RLt(I(0), incomingHsv.v) /\ RLt(I(0), incomingHsv.s)
        THEN incomingHsv
        ELSE Spread(current, [a |-> incomingHsv.a, v |-> incomingHsv.v])

\* A variant of WatchColor that adopts every incoming HSV.
WatchColorAdoptAll(current, newVal, guard) ==
    IF guard THEN current ELSE newVal.hsv

\* The watcher on color, lines 62-78: the tracked HSV after the callback ran
\* for the model value newVal.
WatchColor(current, newVal, guard) ==
    IF guard THEN current
    ELSE LET incomingHsv == newVal.hsv
         IN  IF RLt(I(0), incomingHsv.v) /\ RLt(I(0), incomingHsv.s)
             THEN incomingHsv
             ELSE Spread(current, [a |-> incomingHsv.a, v |-> incomingHsv.v])

\* A variant of Resets in which no nextTick callback is queued.
ResetsNone(n) == <<>>

\* The nextTick callbacks registered by updateHsv are chained on the flush
\* promise: they are queued when the flush has run.
RECURSIVE Resets(_)
Resets(n) == IF n = 0 THEN <<>> ELSE <<"reset">> \o Resets(n - 1)

\* flushJobs: the queued watcher runs (once, for the current model value).
FlushJobs ==
    /\ microtasks # <<>>
    /\ Head(microtasks) = "flushJobs"
    /\ hsv' = IF watchQueued THEN WatchColor(hsv, color, isInternalUpdate) ELSE hsv
    /\ watchQueued' = FALSE
    /\ microtasks' = Tail(microtasks) \o Resets(flushWaiters)
    /\ flushWaiters' = 0
    /\ inTask' = FALSE
    /\ lastStep' = IF ~watchQueued THEN "render"
                   ELSE IF isInternalUpdate THEN "watchSkipped" ELSE "watchRan"
    /\ UNCHANGED <<color, previewColor, isInternalUpdate, lastOp, vRun>>
    /\ UNCHANGED parseVars

\* nextTick(() => { isInternalUpdate = false })
ResetGuard ==
    /\ microtasks # <<>>
    /\ Head(microtasks) = "reset"
    /\ isInternalUpdate' = FALSE
    /\ microtasks' = Tail(microtasks)
    /\ inTask' = FALSE
    /\ lastStep' = "reset"
    /\ UNCHANGED <<hsv, color, previewColor, watchQueued, flushWaiters, lastOp, vRun>>
    /\ UNCHANGED parseVars

\* ------------------------------------------------------------------------
\* The parser and its two module-level caches (color.utils.ts)
\* ------------------------------------------------------------------------

\* Inputs handed to parseColor: strings, objects of every recognised shape
\* and of none, a ColorValue, null and undefined.
ParseInputs ==
    {Str(s) : s \in {EmptyString, Zzz, Red, ShortHexRed, RgbOver, HsvSteel,
                     OklchWhite, SevenDigits, RgbaHalfRed, HexHalfRed}}
    \cup {Obj([r |-> 300, g |-> 0, b |-> 0, a |-> I(1)]),
          Obj([r |-> 255, g |-> 0, b |-> 0, a |-> Q(1, 2)]),
          Obj(Hsv(I(200), Q(1, 2), Q(1, 2), I(1))),
          Obj([x |-> 1]),
          Obj(ColorValueOf([r |-> 255, g |-> 0, b |-> 0, a |-> Q(1, 2)])),
          Null, Undefined}

NoCall == [kind |-> "none"]

\* No text field is mounted in the picker.
NoInput ==
    /\ localValue = <<>>
    /\ format = "hex"

InitCaches ==
    /\ parsedColorCache = EmptyMap
    /\ colorNameCache = EmptyMap
    /\ lastParse = NoCall
    /\ parseCalls = 0
    /\ lastCall = NoCall
    /\ NoInput

\* One call of parseColor. lastParse records the input, whether the call
\* threw, what it returned, whether parseToRgb has a result for the input in
\* the state the call started in, and the strings handed to the platform.
ParseColor(input) ==
    LET st  == [names |-> colorNameCache, calls |-> <<>>]
        out == parseColor(input, parsedColorCache, st, document)
    IN  /\ parseCalls < MaxParseCalls
        /\ parseCalls' = parseCalls + 1
        /\ parsedColorCache' = out.cache
        /\ colorNameCache' = out.st.names
        /\ lastParse' = [kind |-> "parseColor", input |-> input,
                         thrown |-> out.thrown, value |-> out.value,
                         noRgb |-> parseToRgb(input, st, document).value = NoResult,
                         calls |-> out.st.calls]
        /\ UNCHANGED <<document, lastCall, pickerVars, inputVars, dragVars>>

InitParse ==
    /\ InitPicker
    /\ color = parseColorHsv(Hsv(I(0), I(1), I(1), I(1)))
    /\ InitCaches
    /\ document \in Documents

NextParse == \E input \in ParseInputs : ParseColor(input)

SpecParse == InitParse /\ [][NextParse]_vars

\* ------------------------------------------------------------------------
\* Calls of parseToRgb and hexToRgb, with the resolver's cache as state
\* ------------------------------------------------------------------------

\* Strings handed to hexToRgb and parseToRgb: valid hex, each functional
\* form, names the platform resolves to an opaque colour, to a translucent
\* one and not at all, a hex-like string of a wrong length, the empty one.
ToRgbStrings ==
    {EmptyString, Zzz, Red, Transparent, ShortHexRed, RgbOver, HsvSteel,
     OklchWhite, SevenDigits}

\* Objects handed to parseToRgb: one of each recognised shape, two of none.
ToRgbObjects ==
    {[r |-> 300, g |-> 0, b |-> 0, a |-> I(1)],
     Hsv(I(200), Q(1, 2), Q(1, 2), I(1)),
     [l |-> I(1), c |-> I(0), h |-> I(0), a |-> I(1)],
     ColorValueOf([r |-> 255, g |-> 0, b |-> 0, a |-> Q(1, 2)]),
     [x |-> 1],
     [h |-> I(200), s |-> Q(1, 2)]}

ToRgbInputs ==
    {Str(s) : s \in ToRgbStrings} \cup {Obj(o) : o \in ToRgbObjects}
    \cup {Null, Undefined}

\* History: the strings handed to the platform before a call was made.
AskedBefore(call) ==
    IF call = NoCall THEN {} ELSE call.asked \cup Range(call.calls)

\* The state a call returned in is kept, and lastCall records the call: the
\* function, its input, the returned value, the strings the call handed to
\* the platform, in order, and those handed to it by the calls before.
Returned(fn, input, out) ==
    /\ colorNameCache' = out.st.names
    /\ lastCall' = [fn |-> fn, input |-> input, value |-> out.value,
                    calls |-> out.st.calls, asked |-> AskedBefore(lastCall)]
    /\ UNCHANGED <<parsedColorCache, document, lastParse, parseCalls, pickerVars,
                   inputVars, dragVars>>

\* One call of parseToRgb.
ParseToRgb(input) ==
    Returned("parseToRgb", input,
             parseToRgb(input, [names |-> colorNameCache, calls |-> <<>>], document))

\* One call of hexToRgb.
HexToRgb(hex) ==
    Returned("hexToRgb", hex,
             hexToRgb(hex, [names |-> colorNameCache, calls |-> <<>>], document))

InitToRgb == InitParse

NextToRgb ==
    \/ \E input \in ToRgbInputs : ParseToRgb(input)
    \/ \E hex \in ToRgbStrings : HexToRgb(hex)

SpecToRgb == InitToRgb /\ [][NextToRgb]_vars

\* ------------------------------------------------------------------------
\* Calls of the conversions that read no state
\* ------------------------------------------------------------------------

\* Channel values handed to the conversions: both ends of the range, values
\* of one and of two hex digits, and values on both sides of the middle.
Channels == {0, 1, 15, 16, 127, 128, 254, 255}

\* Alpha values handed to the conversions: both ends, a half, a byte over
\* 255, and values whose byte rounds up and down.
Alphas == {I(0), Q(1, 255), Q(1, 100), Q(1, 2), Q(128, 255), Q(99, 100), I(1)}

RgbInputs == {[r |-> r, g |-> g, b |-> b, a |-> a] :
                r \in Channels, g \in Channels, b \in Channels, a \in Alphas}

\* The longest run of characters after the prefix in a string handed to
\* isHexColorValid: one more than the longest form the expression accepts.
MaxDigits == 9

\* Strings handed to isHexColorValid: nothing, '#', '##' or ' #', followed
\* by 0..MaxDigits copies of one hex digit (either case), one of them
\* possibly replaced by another character: a hex digit of the other case, a
\* letter past f, '#', a blank, a line break.
HexFill == {"0", "9", "a", "f", "A", "F"}
HexOdd == {"c", "D", "g", "G", "#", " ", "\n"}
HexPrefixes == {<<>>, <<"#">>, <<"#", "#">>, <<" ", "#">>}
HexBodies ==
    UNION {{[i \in 1..n |-> d] : d \in HexFill} \cup
           {[i \in 1..n |-> IF i = k THEN c ELSE d] :
              d \in HexFill, k \in 1..n, c \in HexOdd} : n \in 0..MaxDigits}
HexStrings == {p \o body : p \in HexPrefixes, body \in HexBodies}

\* Valid hex strings handed to hexToRgb: every shorthand string of three
\* and of four digits over ShortDigits, and the long form of each.
ShortDigits == {"0", "1", "8", "a", "f", "A", "F"}
ShortHexInputs ==
    {<<"#", r, g, b>> : r \in ShortDigits, g \in ShortDigits, b \in ShortDigits}
    \cup {<<"#", r, g, b, a>> :
            r \in ShortDigits, g \in ShortDigits, b \in ShortDigits, a \in ShortDigits}

\* The long form of a shorthand hex string: every digit written twice.
Doubled(hex) ==
    <<"#">> \o <<hex[2], hex[2], hex[3], hex[3], hex[4], hex[4]>>
    \o (IF Len(hex) = 5 THEN <<hex[5], hex[5]>> ELSE <<>>)

ValidHexInputs == ShortHexInputs \cup {Doubled(hex) : hex \in ShortHexInputs}

\* Alpha values of the colours handed to formatColor: numbers of [0, 1] with
\* a short decimal expansion, down to the first that Number.prototype.toString
\* writes with an exponent.
FormatAlphas ==
    {I(0), Q(1, 10000000), Q(1, 1000000), Q(15, 10000000), Q(1, 1000), Q(1, 100),
     Q(37, 100), Q(1, 2), Q(99, 100), I(1)}

\* The ColorValues handed to formatColor: what parseColor returns, on empty
\* caches, for each RGB colour with channels of FormatChannels.
FormatChannels == {0, 7, 51, 102, 153, 255}
FormatColors ==
    {parseColor(Obj([r |-> r, g |-> g, b |-> b, a |-> a]),
                EmptyMap, NoResolverState, "undefined").value :
       r \in FormatChannels, g \in FormatChannels, b \in FormatChannels,
       a \in FormatAlphas}

\* A call about to be made: the function and its argument.
Call(fn, input) == [kind |-> "call", fn |-> fn, input |-> input]

\* The calls of each conversion.
CallsOf(fn, inputs) == {Call(fn, input) : input \in inputs}

\* Whether the call of fn is the one about to be made.
Calling(fn) == lastCall.kind = "call" /\ lastCall.fn = fn

\* The return of a conversion that reads and writes no module state:
\* lastCall keeps the function and its input and gains the returned value.
Computed(value) ==
    /\ lastCall' = [kind |-> "return", fn |-> lastCall.fn,
                    input |-> lastCall.input, value |-> value]
    /\ UNCHANGED <<parsedColorCache, colorNameCache, document, lastParse,
                   parseCalls, pickerVars, inputVars, dragVars>>

\* The return of a conversion that may consult the resolver: the resolver's
\* cache is kept as the call left it.
ComputedIn(out) ==
    /\ lastCall' = [kind |-> "return", fn |-> lastCall.fn,
                    input |-> lastCall.input, value |-> out.value]
    /\ colorNameCache' = out.st.names
    /\ UNCHANGED <<parsedColorCache, document, lastParse, parseCalls, pickerVars,
                   inputVars, dragVars>>

\* Whether a call of fn has returned.
Done(fn) == lastCall.kind = "return" /\ lastCall.fn = fn

\* The call of rgbToHex.
RgbToHex == Calling("rgbToHex") /\ Computed(rgbToHex(lastCall.input))

\* The call of rgbToHsv.
RgbToHsv == Calling("rgbToHsv") /\ Computed(rgbToHsv(lastCall.input))

\* The call of isHexColorValid.
IsHexColorValid == Calling("isHexColorValid") /\ Computed(isHexColorValid(lastCall.input))

\* The call of hexToRgb.
HexToRgbCall ==
    /\ Calling("hexToRgb")
    /\ ComputedIn(hexToRgb(lastCall.input,
                           [names |-> colorNameCache, calls |-> <<>>], document))

\* The call of formatColor.
FormatColor ==
    /\ Calling("formatColor")
    /\ Computed(formatColor(lastCall.input.color, lastCall.input.format))

InitCodec ==
    /\ InitPicker
    /\ color = parseColorHsv(Hsv(I(0), I(1), I(1), I(1)))
    /\ parsedColorCache = EmptyMap
    /\ colorNameCache = EmptyMap
    /\ lastParse = NoCall
    /\ parseCalls = 0
    /\ NoInput
    /\ document \in Documents
    /\ \/ lastCall \in CallsOf("rgbToHex", RgbInputs)
       \/ lastCall \in CallsOf("rgbToHsv", RgbInputs)
       \/ lastCall \in CallsOf("isHexColorValid", HexStrings)
       \/ lastCall \in CallsOf("hexToRgb", ValidHexInputs)
       \/ lastCall \in CallsOf("formatColor",
                                {[color |-> cv, format |-> "rgb"] : cv \in FormatColors})

NextCodec ==
    \/ RgbToHex
    \/ RgbToHsv
    \/ IsHexColorValid
    \/ HexToRgbCall
    \/ FormatColor

SpecCodec == InitCodec /\ [][NextCodec]_vars

\* ------------------------------------------------------------------------
\* The text field of the picker (ColorPickerInput)
\* ------------------------------------------------------------------------

\* The formats of the text field that formatColor is modelled for.
Formats == {"hex", "rgb", "hsv"}

UpperHexRed == <<"#", "F", "F", "0", "0", "0", "0">>

\* Texts typed into the field: nothing, a word that names no colour, a
\* colour name, a hex string in upper case, and two functional forms.
InputTexts == {EmptyString, Zzz, Red, UpperHexRed, RgbOver, HsvSteel}

\* A variant of Materially that finds every parsed text different.
MateriallyAlways(parsed, current, fmt) == TRUE

\* handleInput, lines 189-192: the parsed colour is written in the active
\* format differently from the current one.
Materially(parsed, current, fmt) ==
    formatColor(parsed, fmt) # formatColor(current, fmt)

\* The watcher of the field, lines 169-181: the text after it ran for the
\* model value newColor.
SyncedText(text, newColor, newFormat) ==
    LET formatted == formatColor(newColor, newFormat)
    IN  IF toLowerCase(formatted) # toLowerCase(text) THEN formatted ELSE text

\* The field is mounted in the picker: the watcher has run once (immediate).
InitInput ==
    /\ InitPicker
    /\ parsedColorCache = EmptyMap
    /\ colorNameCache = EmptyMap
    /\ lastParse = NoCall
    /\ parseCalls = 0
    /\ lastCall = NoCall
    /\ document \in Documents
    /\ format \in Formats
    /\ localValue = SyncedText(<<>>, color, format)

\* handleInput once parseColor(value) has returned out; noRgb tells whether
\* parseToRgb has no result for the text.  parseColor returns an object for
\* every string, so the test of line 187 passes.  lastOp records the text,
\* the parsed colour, whether setColor was called and the picker's colours
\* before the event.
HandleInputParsed(value, out, noRgb, called) ==
    /\ AtTaskLevel
    /\ localValue' = value
    /\ parsedColorCache' = out.cache
    /\ colorNameCache' = out.st.names
    /\ color' = IF called THEN out.value ELSE color
    /\ hsv' = IF called THEN HsvAfterSetColor(hsv, out.value) ELSE hsv
    /\ watchQueued' = (watchQueued \/ called)
    /\ microtasks' = IF called \/ value # localValue
                     THEN QueueFlush(microtasks) ELSE microtasks
    /\ inTask' = TRUE
    /\ lastOp' = [kind |-> "handleInput", value |-> value, parsed |-> out.value,
                  noRgb |-> noRgb, setColor |-> called,
                  before |-> [color |-> color, hsv |-> hsv,
                              previewColor |-> previewColor]]
    /\ lastStep' = "handleInput"
    /\ vRun' = IF called THEN NoRun ELSE vRun
    /\ UNCHANGED <<previewColor, isInternalUpdate, flushWaiters, document,
                   lastParse, parseCalls, lastCall, format, dragVars>>

HandleInputOut(value, out, noRgb) ==
    HandleInputParsed(value, out, noRgb, Materially(out.value, color, format))

\* handleInput(e), e.target.value = value
HandleInput(value) ==
    HandleInputOut(value,
                   parseColor(Str(value), parsedColorCache,
                              [names |-> colorNameCache, calls |-> <<>>], document),
                   parseToRgb(Str(value), [names |-> colorNameCache, calls |-> <<>>],
                              document).value = NoResult)

\* flushJobs with the field mounted: the watcher of the root and the watcher
\* of the field run for the current model value.
FlushInput ==
    /\ microtasks # <<>>
    /\ Head(microtasks) = "flushJobs"
    /\ hsv' = IF watchQueued THEN WatchColor(hsv, color, isInternalUpdate) ELSE hsv
    /\ localValue' = IF watchQueued THEN SyncedText(localValue, color, format)
                     ELSE localValue
    /\ watchQueued' = FALSE
    /\ microtasks' = Tail(microtasks) \o Resets(flushWaiters)
    /\ flushWaiters' = 0
    /\ inTask' = FALSE
    /\ lastStep' = IF ~watchQueued THEN "render"
                   ELSE IF isInternalUpdate THEN "watchSkipped" ELSE "watchRan"
    /\ UNCHANGED <<color, previewColor, isInternalUpdate, lastOp, vRun>>
    /\ UNCHANGED <<parsedColorCache, colorNameCache, document, lastParse,
                   parseCalls, lastCall, format, dragVars>>

NextInput ==
    \/ \E value \in InputTexts : HandleInput(value)
    \/ FlushInput

SpecInput == InitInput /\ [][NextInput]_vars

\* ------------------------------------------------------------------------
\* The drag surfaces (ColorPickerArea, ColorPickerSaturation)
\* ------------------------------------------------------------------------

\* The picker's state without the history of steps.
pickerState == <<hsv, color, previewColor, isInternalUpdate, watchQueued,
                 microtasks, flushWaiters, inTask, lastOp, vRun>>

\* useMouseInElement: the pointer relative to the surface, and its size.
elementX(s, p) == p.x
elementY(s, p) == IF s = "hue" THEN p.y - HueTop ELSE p.y
elementWidth(s, p) == p.w
elementHeight(s, p) == IF s = "hue" THEN p.w \div 5 ELSE p.w

isOutside(s, p) ==
    \/ elementWidth(s, p) = 0
    \/ elementHeight(s, p) = 0
    \/ elementX(s, p) < 0
    \/ elementY(s, p) < 0
    \/ elementX(s, p) > elementWidth(s, p)
    \/ elementY(s, p) > elementHeight(s, p)

clamp(v) == RMax(I(0), RMin(I(1), v))

\* The argument of the setHsv call a frame callback of surface s makes for
\* the pointer p: through the change handlers of ColorPicker.vue for the
\* two ColorPickerArea, directly for ColorPickerSaturation.
ChangeOf(s, p) ==
    LET x == clamp(Q(elementX(s, p), elementWidth(s, p)))
        y == clamp(Q(elementY(s, p), elementHeight(s, p)))
    IN  IF s = "hue" THEN [h |-> RMul(x, I(360))]
        ELSE IF s = "area" THEN [s |-> x, v |-> RSub(I(1), y)]
        ELSE [s |-> x,
              v |-> clamp(RSub(I(1), Q(elementY(s, p), elementHeight(s, p))))]

\* A variant of Pending that finds no frame requested.
PendingNever(id) == FALSE

\* if (rafId) return
Pending(id) == id # NoFrame

\* Whether a call of updatePosition / updateColorFromPosition on surface s
\* requests a frame: none is pending and, for ColorPickerSaturation, the
\* pointer is inside.
Requests(s, ids, p) ==
    /\ ~Pending(ids[s])
    /\ s = "saturation" => ~isOutside(s, p)

\* The frame list after the surfaces of the sequence ss called their
\* update function one after the other.
RECURSIVE Requested(_, _, _, _)
Requested(ss, ids, p, queue) ==
    IF ss = <<>> THEN [ids |-> ids, queue |-> queue]
    ELSE IF Requests(Head(ss), ids, p)
         THEN Requested(Tail(ss), [ids EXCEPT ![Head(ss)] = FrameHandle], p,
                        Append(queue, Head(ss)))
         ELSE Requested(Tail(ss), ids, p, queue)

\* The surfaces a pointerdown on a target reaches, in bubbling order.
Targets == {<<"area", "saturation">>, <<"hue">>}

\* The listeners of pointermove on window, in the order of their setup.
MoveListeners == <<"saturation", "area", "hue">>

RECURSIVE Dragging(_, _)
Dragging(ss, drag) ==
    IF ss = <<>> THEN <<>>
    ELSE (IF drag[Head(ss)] THEN <<Head(ss)>> ELSE <<>>) \o Dragging(Tail(ss), drag)

\* The pointer's position changes (the listeners of useMouseInElement), or
\* the surfaces are laid out anew.
MouseMove(p) ==
    /\ pointer' = p
    /\ UNCHANGED <<rafId, isDragging, frames, lastFrame>>
    /\ lastStep' = "pointer"
    /\ UNCHANGED <<pickerState, parsedColorCache, colorNameCache, document,
                   lastParse, parseCalls, lastCall, inputVars>>

\* The surfaces' state after an event made the surfaces of ss request.
SurfacesAfter(req) ==
    /\ rafId' = req.ids
    /\ frames' = req.queue
    /\ UNCHANGED <<pointer, lastFrame>>
    /\ lastStep' = "pointer"
    /\ UNCHANGED <<pickerState, parsedColorCache, colorNameCache, document,
                   lastParse, parseCalls, lastCall, inputVars>>

\* onPointerDown of each surface the event reaches.
PointerDown(target) ==
    /\ isDragging' = [s \in Surfaces |->
                        isDragging[s] \/ \E i \in 1..Len(target) : target[i] = s]
    /\ SurfacesAfter(Requested(target, rafId, pointer, frames))

\* The pointermove listeners of the surfaces.
PointerMove ==
    /\ UNCHANGED isDragging
    /\ SurfacesAfter(Requested(Dragging(MoveListeners, isDragging), rafId, pointer,
                               frames))

\* onPointerUp of every surface (listeners on window).
PointerUp ==
    /\ isDragging' = [s \in Surfaces |-> FALSE]
    /\ UNCHANGED <<rafId, pointer, frames, lastFrame>>
    /\ lastStep' = "pointer"
    /\ UNCHANGED <<pickerState, parsedColorCache, colorNameCache, document,
                   lastParse, parseCalls, lastCall, inputVars>>

\* The frame callback of surface s when the surface has a size: one
\* setHsv call (updateHsv) for the pointer as it is now.
FrameChange(s, hsvUpdate) ==
    /\ isInternalUpdate' = TRUE
    /\ hsv' = MergedHsv(hsv, hsvUpdate)
    /\ color' = parseColorHsv(hsv')
    /\ previewColor' = PreviewAfter(previewColor, hsvUpdate)
    /\ watchQueued' = TRUE
    /\ microtasks' = QueueFlush(microtasks)
    /\ flushWaiters' = flushWaiters + 1
    /\ inTask' = TRUE
    /\ lastOp' = [kind |-> "setHsv", arg |-> hsvUpdate]
    /\ vRun' = RunAfterSetHsv(vRun, hsv, hsvUpdate)
    /\ lastFrame' = [surface |-> s, changes |-> <<hsvUpdate>>]

\* The frame callback of surface s when the surface has no size.
FrameIdle(s) ==
    /\ lastFrame' = [surface |-> s, changes |-> <<>>]
    /\ UNCHANGED <<hsv, color, previewColor, isInternalUpdate, watchQueued,
                   microtasks, flushWaiters, inTask, lastOp, vRun>>

\* The platform runs the oldest requested frame callback, in a task of its
\* own: the microtasks of the task before have drained.
RunFrame ==
    /\ frames # <<>>
    /\ microtasks = <<>>
    /\ frames' = Tail(frames)
    /\ rafId' = [rafId EXCEPT ![Head(frames)] = NoFrame]
    /\ lastStep' = "frame"
    /\ IF elementWidth(Head(frames), pointer) # 0
          /\ elementHeight(Head(frames), pointer) # 0
       THEN FrameChange(Head(frames), ChangeOf(Head(frames), pointer))
       ELSE FrameIdle(Head(frames))
    /\ UNCHANGED <<isDragging, pointer>>
    /\ UNCHANGED <<parsedColorCache, colorNameCache, document, lastParse,
                   parseCalls, lastCall, inputVars>>

NextDrag ==
    \/ \E p \in Pointers : MouseMove(p)
    \/ \E target \in Targets : PointerDown(target)
    \/ PointerMove
    \/ PointerUp
    \/ RunFrame
    \/ FlushJobs
    \/ ResetGuard

InitDrag ==
    /\ InitPicker
    /\ color = parseColorHsv(Hsv(I(0), I(1), I(1), I(1)))
    /\ InitCaches
    /\ document = "canvas"

SpecDrag == InitDrag /\ [][NextDrag]_vars

\* ------------------------------------------------------------------------
\* setHsv called with any numbers
\* ------------------------------------------------------------------------

\* Numbers below, inside and above the range of each field.
AnyHue == {I(-10), Q(452, 5), I(370)}
AnyFraction == {Q(-1, 2), Q(1, 2), I(2)}

\* The arguments of setHsv: one field each, and the pair of a drag.
AnyHsvUpdates ==
    {[h |-> h] : h \in AnyHue}
    \cup {[s |-> x] : x \in AnyFraction}
    \cup {[v |-> x] : x \in AnyFraction}
    \cup {[a |-> x] : x \in AnyFraction}
    \cup {[s |-> x, v |-> y] : x \in AnyFraction, y \in AnyFraction}

NextSetHsv ==
    \/ \E u \in AnyHsvUpdates : SetHsv(u)
    \/ FlushJobs
    \/ ResetGuard

SpecSetHsv == InitDrag /\ [][NextSetHsv]_vars

Next ==
    \/ \E u \in HsvUpdates : SetHsv(u)
    \/ \E c \in OwnerColors : SetColor(c)
    \/ \E c \in PreviewInputs : SetPreviewColor(c)
    \/ \E c \in OwnerColors : ExternalReplace(c)
    \/ FlushJobs
    \/ ResetGuard

Init ==
    /\ InitPicker
    /\ InitCaches
    /\ document = "canvas"

Spec == Init /\ [][Next]_vars

\* The picker under the scheduling of the platform: the microtask queue is
\* drained, so a queued flush and a queued nextTick callback do run.
SpecFair == Spec /\ WF_vars(FlushJobs) /\ WF_vars(ResetGuard)

\* ------------------------------------------------------------------------
\* Properties of the picker
\* ------------------------------------------------------------------------

\* C1: a run of setHsv calls that pass only v, started from a colour with
\* s > 0 and v > 0 and not interrupted by setColor or a write to the model,
\* leaves hsv.h and hsv.s at their starting values, in every state of the
\* run: after each call, each watcher run and each guard reset.
C1_HuePreserved ==
    vRun # NoRun => hsv.h = vRun.h /\ hsv.s = vRun.s

\* The run drove v to 0 and back up, and all scheduled work has run.
C1_Witness ==
    /\ vRun # NoRun
    /\ vRun.collapsed
    /\ RLt(I(0), hsv.v)
    /\ hsv.h = I(200)
    /\ hsv.s = Q(1, 2)
    /\ microtasks = <<>>
    /\ lastStep = "reset"

\* A step of the flush in which the watcher on color ran or was due to run.
WatcherStep == watchQueued /\ ~watchQueued'

\* A step of the scheduler (the flush or a guard reset), not of an operation.
SchedulerStep == lastStep' \in {"render", "watchSkipped", "watchRan", "reset"}

\* C2: after setHsv, the watcher run that its write to color triggers finds
\* the guard set, and no step of the scheduled work (the flush, the guard
\* resets) changes the merged HSV that setHsv stored.
C2_ObserverSkipsOwnUpdate ==
    [][(lastOp.kind = "setHsv" /\ SchedulerStep)
          => (hsv' = hsv /\ (WatcherStep => isInternalUpdate))]_vars

\* All work setHsv scheduled has run, and the tracked HSV is not the HSV of
\* the colour it produced (a recomputation would have changed it).
C2_Witness ==
    /\ lastOp.kind = "setHsv"
    /\ lastStep = "reset"
    /\ microtasks = <<>>
    /\ ~isInternalUpdate
    /\ hsv # color.hsv
    /\ RLt(I(0), color.hsv.v) /\ RLt(I(0), color.hsv.s)

\* The HSV the watcher derives from an incoming colour: the incoming HSV if
\* it has v > 0 and s > 0, else the tracked h and s with the incoming v, a.
Rederived(current, incoming) ==
    IF RLt(I(0), incoming.v) /\ RLt(I(0), incoming.s)
    THEN incoming
    ELSE [h |-> current.h, s |-> current.s, v |-> incoming.v, a |-> incoming.a]

\* C3: whenever the owner's write to the bound model is the latest change
\* of color, the watcher run for it re-derives hsv from the incoming colour,
\* also when the write came after a setHsv call whose guard is not yet reset.
C3_ExternalAlwaysRederived ==
    [][(lastOp.kind = "external" /\ WatcherStep)
          => hsv' = Rederived(hsv, color.hsv)]_vars

\* C4: when the watcher processes a colour with the guard clear, hsv becomes
\* the incoming HSV if that has v > 0 and s > 0; otherwise hsv.h and hsv.s
\* keep their values and hsv.v and hsv.a take the incoming ones.
C4_ObserverRule ==
    [][(WatcherStep /\ ~isInternalUpdate)
          => IF RLt(I(0), color.hsv.v) /\ RLt(I(0), color.hsv.s)
             THEN hsv' = color.hsv
             ELSE /\ hsv'.h = hsv.h
                  /\ hsv'.s = hsv.s
                  /\ hsv'.v = color.hsv.v
                  /\ hsv'.a = color.hsv.a]_vars

\* The watcher processed an external grayscale colour and the tracked hue
\* and saturation are not the incoming ones.
C4_Witness ==
    /\ lastStep = "watchRan"
    /\ lastOp.kind = "external"
    /\ color.hsv.s = I(0)
    /\ hsv.h # color.hsv.h
    /\ hsv.s # color.hsv.s
    /\ hsv.v = color.hsv.v

\* C5: from setColor(c) until the next operation, through the watcher run it
\* triggers, color = c and hsv = c.hsv, whatever c is and whether or not
\* the guard is set.
C5_SetColorResyncs ==
    lastOp.kind = "setColor" => color = lastOp.arg /\ hsv = lastOp.arg.hsv

\* setColor of a grayscale colour, processed by the watcher with the guard
\* clear.
C5_Witness ==
    /\ lastOp.kind = "setColor"
    /\ lastStep = "watchRan"
    /\ microtasks = <<>>
    /\ lastOp.arg.hsv.s = I(0)
    /\ RLt(I(0), lastOp.arg.hsv.v)

\* C6: a setHsv call that passes no h leaves previewColor unchanged.
C6_PreviewUnchangedWithoutHue ==
    [][(lastStep' = "setHsv" /\ "h" \notin DOMAIN lastOp'.arg)
          => previewColor' = previewColor]_vars

\* setHsv({s: ...}) has run and changed the colour's saturation away from
\* the preview's.
C6_Witness ==
    /\ lastStep = "setHsv"
    /\ DOMAIN lastOp.arg = {"s"}
    /\ hsv.s = Q(1, 2)
    /\ previewColor.hsv.s = I(1)

\* The stored hue of a setHsv call that passed h.
StoredHuePreview == parseColorHsv(Hsv(hsv.h, I(1), I(1), I(1)))

\* C7: right after a setHsv call that passed h, previewColor is the parsed
\* {h: hsv.h, s: 1, v: 1, a: 1} for the rounded, clamped hue it stored.
C7_PreviewOfStoredHue ==
    (lastStep = "setHsv" /\ "h" \in DOMAIN lastOp.arg)
        => previewColor = StoredHuePreview

\* C8: in every reachable state previewColor is the parsed
\* {h: hsv.h, s: 1, v: 1, a: 1}.
C8_PreviewInvariant ==
    previewColor = parseColorHsv(Hsv(hsv.h, I(1), I(1), I(1)))

\* C9: setHsv merges.  A field the argument does not name keeps its value; a
\* named s, v or a takes the given value; a named h is stored as an integer
\* of [0,360]: 0 for a negative h, 360 for an h above 360, otherwise an
\* integer within 1/2 of h.
C9_MergeRoundClamp ==
    [][lastStep' = "setHsv" =>
          LET arg == lastOp'.arg
          IN  /\ \A f \in {"s", "v", "a"} :
                    hsv'[f] = IF f \in DOMAIN arg THEN arg[f] ELSE hsv[f]
              /\ "h" \notin DOMAIN arg => hsv'.h = hsv.h
              /\ "h" \in DOMAIN arg =>
                    /\ hsv'.h.d = 1
                    /\ hsv'.h.n \in 0..360
                    /\ RLt(arg.h, I(0)) => hsv'.h = I(0)
                    /\ RLt(I(360), arg.h) => hsv'.h = I(360)
                    /\ (RLe(I(0), arg.h) /\ RLe(arg.h, I(360)))
                          => RLe(RAbs(RSub(hsv'.h, arg.h)), Q(1, 2))]_vars

\* setHsv stored a fractional hue as the nearest integer degree.
C9_Witness ==
    /\ lastStep = "setHsv"
    /\ lastOp.arg = [h |-> Q(452, 5)]
    /\ hsv.h = I(90)

\* C10: parseColor never raises a fault and never returns a no-result
\* value: every call returns a ColorValue, and for an input for which
\* parseToRgb yields no result (an unrecognised object shape, an
\* unresolvable string, the empty string, null) it is the ColorValue of
\* opaque black.
C10_ParseColorTotal ==
    lastParse # NoCall =>
        /\ ~lastParse.thrown
        /\ lastParse.value # NoResult
        /\ lastParse.noRgb => lastParse.value = ColorValueOf(OpaqueBlack)

\* ------------------------------------------------------------------------
\* Properties of the codec
\* ------------------------------------------------------------------------

\* An object has one of the field sets parseToRgb recognises.
HasFieldSet(o) ==
    \E fields \in {{"rgb"}, {"r", "g", "b"}, {"h", "s", "v"}, {"l", "c", "h"}} :
        fields \subseteq DOMAIN o

\* A string matches one of the three functional forms.
MatchesFunctionalForm(str) ==
    \E regex \in {RGB_REGEX, HSV_REGEX, OKLCH_REGEX} : match(str, regex) # NoResult

\* The platform resolves a name to a valid hex string: there is a canvas, and
\* the fill style read back for the normalised name is valid hex.
ResolvesToHex(name) ==
    /\ document = "canvas"
    /\ isHexColorValid(CanvasFillStyle(trim(toLowerCase(name))))

\* C11: parseToRgb and hexToRgb return an RGB colour or null.  parseToRgb
\* returns null for an object with none of the field sets {rgb}, {r,g,b},
\* {h,s,v}, {l,c,h} and for a string that is not valid hex, matches no
\* functional form and is not resolved to valid hex; hexToRgb returns null
\* for a string that is not valid hex and is not resolved to valid hex.
C11_NoResultIsNull ==
    LET input   == lastCall.input
        trimmed == toLowerCase(trim(input.s))
    IN  /\ lastCall # NoCall =>
              \/ lastCall.value = NoResult
              \/ DOMAIN lastCall.value = {"r", "g", "b", "a"}
        /\ (lastCall # NoCall /\ lastCall.fn = "parseToRgb") =>
              /\ (input.t = "object" /\ ~HasFieldSet(input.o))
                    => lastCall.value = NoResult
              /\ (/\ input.t = "string"
                  /\ ~isHexColorValid(trimmed)
                  /\ ~MatchesFunctionalForm(trimmed)
                  /\ ~ResolvesToHex(trimmed))
                    => lastCall.value = NoResult
        /\ (/\ lastCall # NoCall
            /\ lastCall.fn = "hexToRgb"
            /\ ~isHexColorValid(input)
            /\ ~ResolvesToHex(input))
              => lastCall.value = NoResult

\* parseToRgb was handed a name that the platform resolves to a translucent
\* colour, which is no valid hex: the platform was consulted and the call
\* returned null.
C11_Witness ==
    /\ lastCall # NoCall
    /\ lastCall.fn = "parseToRgb"
    /\ lastCall.input = Str(Transparent)
    /\ document = "canvas"
    /\ lastCall.calls # <<>>
    /\ lastCall.value = NoResult

\* C12: rgbToHex returns exactly "#00000000" for every RGB colour whose
\* alpha is exactly 0, whatever its r, g and b.
C12_TransparentIsZeroHex ==
    (Done("rgbToHex") /\ lastCall.input.a = I(0))
        => lastCall.value = <<"#", "0", "0", "0", "0", "0", "0", "0", "0">>

\* The channel digits of a hex string: '#', then two hex digits for each of
\* r, g and b, read back as numbers.
SixDigitsOf(hex, rgb) ==
    /\ Len(hex) >= 7
    /\ hex[1] = "#"
    /\ \A i \in 2..Len(hex) : hex[i] \in Range(HexDigits)
    /\ parseInt16(SubSeq(hex, 2, 3)) = rgb.r
    /\ parseInt16(SubSeq(hex, 4, 5)) = rgb.g
    /\ parseInt16(SubSeq(hex, 6, 7)) = rgb.b

\* C13: for integer channels in [0,255], rgbToHex returns '#' and two
\* zero-padded hex digits per channel; with alpha = 1 nothing follows, with
\* 0 < alpha < 1 the two zero-padded hex digits of round(alpha * 255) follow.
C13_RgbToHexShape ==
    Done("rgbToHex") =>
        LET rgb == lastCall.input
            hex == lastCall.value
        IN  /\ rgb.a = I(1) => (SixDigitsOf(hex, rgb) /\ Len(hex) = 7)
            /\ (RLt(I(0), rgb.a) /\ RLt(rgb.a, I(1))) =>
                 /\ SixDigitsOf(hex, rgb)
                 /\ Len(hex) = 9
                 /\ parseInt16(SubSeq(hex, 8, 9)) = MathRound(RMul(rgb.a, I(255)))

\* A call with a translucent colour whose red channel and alpha byte both
\* need the padding digit.
C13_Witness ==
    /\ Done("rgbToHex")
    /\ lastCall.input.r = 1
    /\ lastCall.input.a = Q(1, 100)
    /\ lastCall.value = <<"#", "0", "1", "f", "f", "8", "0", "0", "3">>

\* C14: hex round trip: for integer channels in [0,255] and alpha = 1,
\* hexToRgb(rgbToHex(rgb)) equals rgb.
C14_HexRoundTrip ==
    (Done("rgbToHex") /\ lastCall.input.a = I(1)) =>
        hexToRgb(lastCall.value, [names |-> colorNameCache, calls |-> <<>>],
                 document).value = lastCall.input

\* An opaque colour with a channel of one hex digit, converted.
C14_Witness ==
    /\ Done("rgbToHex")
    /\ lastCall.input = [r |-> 1, g |-> 255, b |-> 128, a |-> I(1)]
    /\ lastCall.value = <<"#", "0", "1", "f", "f", "8", "0">>

\* C15: HSV round trip: for integer channels in [0,255] and any alpha in
\* [0,1], hsvToRgb(rgbToHsv(rgb)) equals rgb, channel for channel, with the
\* alpha unchanged.
C15_HsvRoundTrip ==
    Done("rgbToHsv") => hsvToRgb(lastCall.value) = lastCall.input

\* A translucent colour whose hue is computed negative and wrapped, between
\* 300 and 360 degrees, converted.
C15_Witness ==
    /\ Done("rgbToHsv")
    /\ lastCall.input = [r |-> 255, g |-> 1, b |-> 128, a |-> Q(1, 2)]
    /\ RLt(I(300), lastCall.value.h)
    /\ lastCall.value.s = Q(254, 255)

\* The characters the claim calls hex digits, of either case.
HexDigitChars ==
    {"0", "1", "2", "3", "4", "5", "6", "7", "8", "9",
     "a", "b", "c", "d", "e", "f", "A", "B", "C", "D", "E", "F"}

\* C17: isHexColorValid(s) is true exactly when s is '#' followed by 3, 4,
\* 6 or 8 characters that are all hex digits of either case, and false for
\* every other string.
C17_HexValidity ==
    Done("isHexColorValid") =>
        LET s == lastCall.input
        IN  lastCall.value <=>
              /\ Len(s) >= 1
              /\ s[1] = "#"
              /\ Len(s) - 1 \in {3, 4, 6, 8}
              /\ \A i \in 2..Len(s) : s[i] \in HexDigitChars

\* An eight-digit string of both cases, accepted.
C17_Witness ==
    /\ Done("isHexColorValid")
    /\ lastCall.input = <<"#", "a", "a", "a", "D", "a", "a", "a", "a">>
    /\ lastCall.value = TRUE

\* The alpha a hex string stands for: 1 without alpha digits, else the
\* alpha byte of the long form over 255.
AlphaOfHex(long) ==
    IF Len(long) = 9 THEN Q(parseInt16(SubSeq(long, 8, 9)), 255) ELSE I(1)

\* C18: shorthand hex equals its doubled long form: hexToRgb("#rgb") =
\* hexToRgb("#rrggbb") and hexToRgb("#rgba") = hexToRgb("#rrggbbaa"); the
\* alpha is 1 when the string has no alpha digits and the alpha byte over
\* 255 when it has them, an alpha of 0 included.
C18_ShorthandIsDoubled ==
    Done("hexToRgb") =>
        LET hex  == lastCall.input
            long == IF Len(hex) \in {4, 5} THEN Doubled(hex) ELSE hex
        IN  /\ lastCall.value = hexToRgb(long, [names |-> colorNameCache, calls |-> <<>>],
                                         document).value
            /\ lastCall.value.a = AlphaOfHex(long)
            /\ lastCall.value.r = parseInt16(SubSeq(long, 2, 3))

\* A four-digit shorthand string with alpha digit 0, decoded to alpha 0 and
\* channels 255, 17, 136.
C18_Witness ==
    /\ Done("hexToRgb")
    /\ lastCall.input = <<"#", "F", "1", "8", "0">>
    /\ lastCall.value = [r |-> 255, g |-> 17, b |-> 136, a |-> I(0)]

\* C19: string dispatch order in parseToRgb: hex first, then the rgb, hsv
\* and oklch functional forms, and the platform's resolver is consulted only
\* for a string that is neither valid hex nor matches a functional form: for
\* a valid hex string or a string matching a functional form the resolver is
\* never called.
C19_ResolverOnlyForNames ==
    (/\ lastCall # NoCall
     /\ lastCall.fn = "parseToRgb"
     /\ lastCall.input.t = "string"
     /\ \/ isHexColorValid(toLowerCase(trim(lastCall.input.s)))
        \/ MatchesFunctionalForm(toLowerCase(trim(lastCall.input.s))))
        => lastCall.calls = <<>>

\* C20: rgb format round trip: for every ColorValue cv that parseColor
\* returns for an RGB colour with integer channels in [0,255] and alpha in
\* [0,1], parseToRgb(formatColor(cv, "rgb")) equals cv.rgb.
C20_RgbFormatRoundTrip ==
    (Done("formatColor") /\ lastCall.input.format = "rgb") =>
        parseToRgb(Str(lastCall.value), [names |-> colorNameCache, calls |-> <<>>],
                   document).value = lastCall.input.color.rgb

\* ------------------------------------------------------------------------
\* Properties of parseColor, the cache and the resolver
\* ------------------------------------------------------------------------

\* C21: parseColor keeps the representation it was given: for an HSV object
\* input the hsv field of the returned ColorValue equals the input (and for
\* an OKLCH object input its oklch field equals the input).
C21_KeepsGivenHsv ==
    (/\ lastParse # NoCall
     /\ ~lastParse.thrown
     /\ lastParse.input.t = "object"
     /\ DOMAIN lastParse.input.o = {"h", "s", "v", "a"})
        => lastParse.value.hsv = lastParse.input.o

\* C22: every ColorValue that parseColor returns for a string or an HSV
\* object is internally consistent: its hex is valid hex of 6 digits (8 when
\* alpha < 1), and decoding the hex with hexToRgb reproduces the r, g, b of
\* its rgb field, which are integers in [0,255].
C22_ColorValueConsistent ==
    (/\ lastParse # NoCall
     /\ ~lastParse.thrown
     /\ \/ lastParse.input.t = "string"
        \/ (lastParse.input.t = "object"
            /\ DOMAIN lastParse.input.o = {"h", "s", "v", "a"}))
        => /\ \A ch \in {"r", "g", "b"} : lastParse.value.rgb[ch] \in 0..255
           /\ isHexColorValid(lastParse.value.hex)
           /\ Len(lastParse.value.hex) =
                 (IF RLt(lastParse.value.rgb.a, I(1)) THEN 9 ELSE 7)
           /\ \A ch \in {"r", "g", "b"} :
                 hexToRgbValid(lastParse.value.hex)[ch] = lastParse.value.rgb[ch]

\* C26: across the calls of parseToRgb and hexToRgb the platform is handed
\* each normalised name at most once, within a call and over the calls,
\* whatever it answered; and a call repeated with the same argument returns
\* what the call before it returned.
C26_ResolverConsultedOnce ==
    /\ [](lastCall # NoCall =>
            /\ \A i, j \in 1..Len(lastCall.calls) :
                  lastCall.calls[i] = lastCall.calls[j] => i = j
            /\ \A i \in 1..Len(lastCall.calls) :
                  lastCall.calls[i] \notin lastCall.asked)
    /\ [][(/\ lastCall # NoCall
           /\ lastCall'.fn = lastCall.fn
           /\ lastCall'.input = lastCall.input)
              => lastCall'.value = lastCall.value]_vars

\* C29: every call of parseColor on a string or on an object returns what
\* parseColor returns for that input when both caches are empty.
C29_CacheTransparent ==
    (lastParse # NoCall /\ ~lastParse.thrown) =>
        lastParse.value =
            parseColor(lastParse.input, EmptyMap, NoResolverState, document).value

\* ------------------------------------------------------------------------
\* Properties of the text field
\* ------------------------------------------------------------------------

\* C23: in the state an input event leaves, setColor(parsed) was called
\* exactly when formatColor(parsed, format) differs from formatColor of the
\* colour the event found; when it was called the model is the parsed
\* colour, and when it was not, color, hsv and previewColor are the ones the
\* event found.
C23_SetColorOnlyWhenDifferent ==
    lastStep = "handleInput" =>
        /\ lastOp.setColor <=>
               formatColor(lastOp.parsed, format)
                   # formatColor(lastOp.before.color, format)
        /\ lastOp.setColor => color = lastOp.parsed /\ hsv = lastOp.parsed.hsv
        /\ ~lastOp.setColor =>
               /\ color = lastOp.before.color
               /\ hsv = lastOp.before.hsv
               /\ previewColor = lastOp.before.previewColor

\* An input event whose text differs from the text of the current colour
\* but parses to a colour written the same way: setColor was not called.
C23_Witness ==
    /\ lastStep = "handleInput"
    /\ ~lastOp.setColor
    /\ localValue = UpperHexRed
    /\ formatColor(color, format) # localValue

\* C30: an input event whose text parseToRgb has no result for does not
\* call setColor and leaves color, hsv and previewColor as it found them.
C30_UnparseableTextIgnored ==
    (lastStep = "handleInput" /\ lastOp.noRgb) =>
        /\ ~lastOp.setColor
        /\ color = lastOp.before.color
        /\ hsv = lastOp.before.hsv
        /\ previewColor = lastOp.before.previewColor

\* ------------------------------------------------------------------------
\* Properties of the drag surfaces
\* ------------------------------------------------------------------------

\* C24: at any time each drag surface has at most one frame callback in the
\* platform's list, and has one exactly when its rafId is set; a frame
\* callback that ran made at most one setHsv call, and the call carries the
\* pointer's position at the time the callback ran.
C24_OneChangePerFrame ==
    /\ \A s \in Surfaces :
          /\ Cardinality({i \in 1..Len(frames) : frames[i] = s}) <= 1
          /\ (rafId[s] # NoFrame) <=> (\E i \in 1..Len(frames) : frames[i] = s)
    /\ lastStep = "frame" =>
          /\ Len(lastFrame.changes) <= 1
          /\ Len(lastFrame.changes) = 1 =>
                /\ lastFrame.changes[1] = ChangeOf(lastFrame.surface, pointer)
                /\ lastOp = [kind |-> "setHsv", arg |-> lastFrame.changes[1]]

\* A frame callback of the saturation square ran during a drag, for a
\* pointer that had moved to the right edge, and set s to 1.
C24_Witness ==
    /\ lastStep = "frame"
    /\ lastFrame.surface = "saturation"
    /\ isDragging["saturation"]
    /\ Len(lastFrame.changes) = 1
    /\ pointer.x = 100
    /\ hsv.s = I(1)
    /\ frames = <<>>

\* ------------------------------------------------------------------------
\* Properties of setHsv on any numbers
\* ------------------------------------------------------------------------

\* C25: whatever numbers setHsv was called with, the tracked hue lies in
\* [0, 360] and the tracked saturation and value lie in [0, 1].
C25_HsvInRange ==
    /\ RLe(I(0), hsv.h) /\ RLe(hsv.h, I(360))
    /\ RLe(I(0), hsv.s) /\ RLe(hsv.s, I(1))
    /\ RLe(I(0), hsv.v) /\ RLe(hsv.v, I(1))

\* ------------------------------------------------------------------------
\* Properties of the re-entrancy guard
\* ------------------------------------------------------------------------

\* Nothing is pending: no flush, no observer run, no guard reset.
Quiescent == microtasks = <<>> /\ ~watchQueued /\ flushWaiters = 0

\* C27: whenever the guard is set it is eventually released; the guard is
\* released in every state where no observer run and no guard reset is
\* pending; and a flush that directly follows an external replacement made
\* while the guard was released runs the observer on the new colour.
C27_GuardReleased ==
    /\ isInternalUpdate ~> ~isInternalUpdate
    /\ [](Quiescent => ~isInternalUpdate)
    /\ [][(/\ lastStep = "external"
           /\ ~isInternalUpdate
           /\ lastStep' \in {"watchRan", "watchSkipped", "render"})
              => /\ lastStep' = "watchRan"
                 /\ hsv' = WatchColorNoGuard(hsv, color, FALSE)]_vars

\* After a setHsv call the flush and the guard reset have run: the guard is
\* released and nothing is left pending.
C27_Witness ==
    /\ lastStep = "reset"
    /\ lastOp.kind = "setHsv"
    /\ Quiescent
    /\ ~isInternalUpdate

\* C28: in every state where nothing is pending, the displayed colour is
\* the colour of the tracked HSV: color.rgb = hsvToRgb(hsv).
C28_HsvAgreesWithColor ==
    Quiescent => color.rgb = hsvToRgb(hsv)

====
